---- MODULE Spec2Model ----
(***************************************************************************)
(* Readable ledger view layer of visor (src/visor/readable.go): the entity *)
(* readers (outputs, inputs, transactions, block bodies) and the output    *)
(* set reconciler (spendable / expected outputs, balance).                 *)
(*                                                                         *)
(* Strings are sequences of one-character strings.  Unsigned 64-bit        *)
(* integers are scaled to WordBits bits; all arithmetic that the code does *)
(* in uint64 is done modulo 2^WordBits.  Slices are (array, len, cap)      *)
(* headers over backing arrays kept in a heap.                             *)
(***************************************************************************)
EXTENDS Integers, Sequences, FiniteSets

VARIABLES pc, call, aborted, heap, owner, os, proc, writes

vars == <<pc, call, aborted, heap, owner, os, proc, writes>>

(***************************************************************************)
(* Bounds                                                                  *)
(***************************************************************************)
WordBits == 6          \* width of the scaled "uint64"
DropletExponent == 1   \* scaled number of decimal places of a coin amount
SecondsPerHour == 2    \* scaled number of seconds in a coin hour
MaxOuts == 3           \* longest collection handed to a batch operation
MaxHead == 2           \* longest head collection of an output set
MaxSpare == 1          \* largest spare capacity of the head collection
MaxCalls == 2          \* concurrent calls on one output set

HashLen == 2           \* scaled number of bytes of a SHA256 digest

RECURSIVE Pow(_, _)
Pow(b, e) == IF e = 0 THEN 1 ELSE b * Pow(b, e - 1)

(***************************************************************************)
(* uint64 arithmetic (package coin, math.go)                               *)
(***************************************************************************)
MaxUint64 == Pow(2, WordBits) - 1
MaxInt64 == Pow(2, WordBits - 1) - 1
U64(n) == n % (MaxUint64 + 1)

AddUint64(a, b) ==
    LET c == U64(a + b)
    IN  IF c < a \/ c < b
          THEN [val |-> 0, err |-> "ErrUint64AddOverflow"]
          ELSE [val |-> c, err |-> "nil"]

multUint64(a, b) ==
    LET c == U64(a * b)
    IN  IF a # 0 /\ (c \div a) # b
          THEN [val |-> 0, err |-> "ErrUint64MultOverflow"]
          ELSE [val |-> c, err |-> "nil"]

(***************************************************************************)
(* Text helpers                                                            *)
(***************************************************************************)
DigitChars == <<"0", "1", "2", "3", "4", "5", "6", "7", "8", "9">>
HexChars == DigitChars \o <<"a", "b", "c", "d", "e", "f">>
Base58Chars ==
    <<"1", "2", "3", "4", "5", "6", "7", "8", "9",
      "A", "B", "C", "D", "E", "F", "G", "H", "J", "K", "L", "M", "N", "P",
      "Q", "R", "S", "T", "U", "V", "W", "X", "Y", "Z",
      "a", "b", "c", "d", "e", "f", "g", "h", "i", "j", "k", "m", "n", "o",
      "p", "q", "r", "s", "t", "u", "v", "w", "x", "y", "z">>

IndexOf(c, alphabet) ==
    IF \E i \in 1..Len(alphabet) : alphabet[i] = c
      THEN CHOOSE i \in 1..Len(alphabet) : alphabet[i] = c
      ELSE 0

AllIn(s, alphabet) == \A i \in 1..Len(s) : IndexOf(s[i], alphabet) # 0

\* the value of the digit string s in the given radix (most significant first)
RECURSIVE ToNumber(_, _, _)
ToNumber(s, alphabet, radix) ==
    IF s = <<>> THEN 0
    ELSE ToNumber(SubSeq(s, 1, Len(s) - 1), alphabet, radix) * radix
           + (IndexOf(s[Len(s)], alphabet) - 1)

\* the shortest digit string of n in the given radix; the empty string for 0
RECURSIVE FromNumber(_, _, _)
FromNumber(n, alphabet, radix) ==
    IF n = 0 THEN <<>>
    ELSE FromNumber(n \div radix, alphabet, radix) \o <<alphabet[(n % radix) + 1]>>

RECURSIVE LeadingCount(_, _)
LeadingCount(s, c) ==
    IF s # <<>> /\ s[1] = c THEN 1 + LeadingCount(Tail(s), c) ELSE 0

RECURSIVE TrailingCount(_, _)
TrailingCount(s, c) ==
    IF s # <<>> /\ s[Len(s)] = c
      THEN 1 + TrailingCount(SubSeq(s, 1, Len(s) - 1), c)
      ELSE 0

Repeat(c, n) == [i \in 1..n |-> c]

\* strings.Compare: -1, 0 or 1 by bytewise lexicographic order
RECURSIVE Compare(_, _, _)
Compare(a, b, alphabet) ==
    IF a = <<>> /\ b = <<>> THEN 0
    ELSE IF a = <<>> THEN -1
    ELSE IF b = <<>> THEN 1
    ELSE IF a[1] = b[1] THEN Compare(Tail(a), Tail(b), alphabet)
    ELSE IF IndexOf(a[1], alphabet) < IndexOf(b[1], alphabet) THEN -1 ELSE 1

(***************************************************************************)
(* Amount codec (package droplet)                                          *)
(***************************************************************************)
Multiplier == Pow(10, DropletExponent)

ToString(n) ==
    IF n > MaxInt64 THEN [val |-> <<>>, err |-> "ErrTooLarge"]
    ELSE LET whole == FromNumber(n \div Multiplier, DigitChars, 10)
             frac  == FromNumber(n % Multiplier, DigitChars, 10)
             padded == Repeat("0", DropletExponent - Len(frac)) \o frac
             kept  == SubSeq(padded, 1, Len(padded) - TrailingCount(padded, "0"))
         IN  [val |-> (IF whole = <<>> THEN <<"0">> ELSE whole)
                        \o (IF kept = <<>> THEN <<>> ELSE <<".">> \o kept),
              err |-> "nil"]

FromString(s) ==
    LET neg    == s # <<>> /\ s[1] = "-"
        body   == IF s # <<>> /\ s[1] \in {"-", "+"} THEN Tail(s) ELSE s
        dots   == {i \in 1..Len(body) : body[i] = "."}
        dot    == IF dots = {} THEN Len(body) + 1 ELSE CHOOSE i \in dots : TRUE
        int    == SubSeq(body, 1, dot - 1) \o SubSeq(body, dot + 1, Len(body))
        places == Len(body) - dot
        mant   == ToNumber(int, DigitChars, 10)
    IN  IF Cardinality(dots) > 1 \/ int = <<>> \/ ~AllIn(int, DigitChars)
          THEN [val |-> 0, err |-> "ErrParse"]
        ELSE IF neg /\ mant # 0
          THEN [val |-> 0, err |-> "ErrNegativeValue"]
        ELSE IF dots # {} /\ places > DropletExponent
          THEN [val |-> 0, err |-> "ErrTooManyDecimals"]
        ELSE LET amt == mant * Pow(10, DropletExponent - (IF dots = {} THEN 0 ELSE places))
             IN  IF amt > MaxInt64
                   THEN [val |-> 0, err |-> "ErrTooLarge"]
                   ELSE [val |-> amt, err |-> "nil"]

(***************************************************************************)
(* Hash and address codec (package cipher)                                 *)
(***************************************************************************)
RECURSIVE Mix(_, _)
Mix(h, bytes) ==
    IF bytes = <<>> THEN h
    ELSE Mix((h * 33 + bytes[1]) % Pow(256, HashLen), Tail(bytes))

\* big-endian bytes of n, exactly len of them
RECURSIVE BytesOf(_, _)
BytesOf(n, len) ==
    IF len = 0 THEN <<>> ELSE BytesOf(n \div 256, len - 1) \o <<n % 256>>

SumSHA256(bytes) == BytesOf(Mix(5381 % Pow(256, HashLen), bytes), HashLen)

ZeroSHA256 == Repeat(0, HashLen)

RECURSIVE Hex(_)
Hex(bytes) ==
    IF bytes = <<>> THEN <<>>
    ELSE <<HexChars[(bytes[1] \div 16) + 1], HexChars[(bytes[1] % 16) + 1]>>
           \o Hex(Tail(bytes))

RECURSIVE HexDecode(_)
HexDecode(s) ==
    IF s = <<>> THEN <<>>
    ELSE <<(IndexOf(s[1], HexChars) - 1) * 16 + (IndexOf(s[2], HexChars) - 1)>>
           \o HexDecode(Tail(Tail(s)))

SHA256FromHex(s) ==
    IF Len(s) % 2 # 0 \/ ~AllIn(s, HexChars)
      THEN [val |-> ZeroSHA256, err |-> "ErrInvalidHex"]
    ELSE IF Len(s) # 2 * HashLen
      THEN [val |-> ZeroSHA256, err |-> "ErrInvalidHexLength"]
    ELSE [val |-> HexDecode(s), err |-> "nil"]

RECURSIVE BigEndian(_)
BigEndian(bytes) ==
    IF bytes = <<>> THEN 0
    ELSE BigEndian(SubSeq(bytes, 1, Len(bytes) - 1)) * 256 + bytes[Len(bytes)]

RECURSIVE MinimalBytes(_)
MinimalBytes(n) == IF n = 0 THEN <<>> ELSE MinimalBytes(n \div 256) \o <<n % 256>>

Base58Encode(bytes) ==
    Repeat("1", LeadingCount(bytes, 0)) \o FromNumber(BigEndian(bytes), Base58Chars, 58)

Base58Decode(s) ==
    IF s = <<>> \/ ~AllIn(s, Base58Chars)
      THEN [val |-> <<>>, err |-> "ErrInvalidBase58"]
      ELSE [val |-> Repeat(0, LeadingCount(s, "1"))
                      \o MinimalBytes(ToNumber(s, Base58Chars, 58)),
            err |-> "nil"]

\* an address is a version byte and a (scaled, one byte) key hash
NullAddress == [Version |-> 0, Key |-> 0]
AddressChecksum(a) == SumSHA256(<<a.Key, a.Version>>)[1]
AddressBytes(a) == <<a.Key, a.Version, AddressChecksum(a)>>
AddressString(a) == Base58Encode(AddressBytes(a))

DecodeBase58Address(s) ==
    LET b == Base58Decode(s)
    IN  IF b.err # "nil" THEN [val |-> NullAddress, err |-> b.err]
        ELSE IF Len(b.val) # 3
          THEN [val |-> NullAddress, err |-> "ErrAddressInvalidLength"]
        ELSE LET a == [Version |-> b.val[2], Key |-> b.val[1]]
             IN  IF AddressChecksum(a) # b.val[3]
                   THEN [val |-> NullAddress, err |-> "ErrAddressInvalidChecksum"]
                 ELSE IF a.Version # 0
                   THEN [val |-> NullAddress, err |-> "ErrAddressInvalidVersion"]
                 ELSE [val |-> a, err |-> "nil"]

(***************************************************************************)
(* Ledger entities (package coin)                                          *)
(***************************************************************************)
RECURSIVE Flatten(_)
Flatten(ss) == IF ss = <<>> THEN <<>> ELSE ss[1] \o Flatten(Tail(ss))

UxBodyBytes(b) ==
    b.SrcTransaction \o <<b.Address.Version, b.Address.Key, b.Coins, b.Hours>>

\* UxOut.Hash: the content hash of the body (the head is not hashed)
UxHash(ux) == SumSHA256(UxBodyBytes(ux.Body))

\* TransactionOutput.UxID: the hash of the output combined with its transaction id
UxID(t, txid) ==
    SumSHA256(UxBodyBytes([SrcTransaction |-> txid, Address |-> t.Address,
                           Coins |-> t.Coins, Hours |-> t.Hours]))

TxnBytes(txn) ==
    <<txn.Length, txn.Type>> \o txn.InnerHash \o Flatten(txn.Sigs) \o Flatten(txn.In)
      \o Flatten([i \in 1..Len(txn.Out) |->
                    <<txn.Out[i].Address.Version, txn.Out[i].Address.Key,
                      txn.Out[i].Coins, txn.Out[i].Hours>>])

TxnHash(txn) == SumSHA256(TxnBytes(txn))
TxIDHex(txn) == Hex(TxnHash(txn))

\* UxOut.CoinHours: the declared hours plus one hour per coin per hour held
CoinHours(ux, t) ==
    IF t < ux.Head.Time THEN [val |-> ux.Body.Hours, err |-> "nil"]
    ELSE LET seconds    == t - ux.Head.Time
             wholeCoins == ux.Body.Coins \div Multiplier
             wholeCoinSeconds == multUint64(seconds, wholeCoins)
             remainderDroplets == ux.Body.Coins % Multiplier
             dropletSeconds == multUint64(seconds, remainderDroplets)
         IN  IF wholeCoinSeconds.err # "nil"
               THEN [val |-> 0, err |-> "ErrCoinSecondsOverflow"]
             ELSE IF dropletSeconds.err # "nil"
               THEN [val |-> 0, err |-> "ErrDropletSecondsOverflow"]
             ELSE LET coinSeconds == U64(wholeCoinSeconds.val
                                           + (dropletSeconds.val \div Multiplier))
                      coinHours   == coinSeconds \div SecondsPerHour
                      totalHours  == AddUint64(ux.Body.Hours, coinHours)
                  IN  IF totalHours.err # "nil"
                        THEN [val |-> 0, err |-> "ErrAddEarnedCoinHoursAdditionOverflow"]
                        ELSE [val |-> totalHours.val, err |-> "nil"]

(***************************************************************************)
(* Transaction status                                                      *)
(***************************************************************************)
\* the zero value of TransactionStatus
ZeroTransactionStatus ==
    [Confirmed |-> FALSE, Unconfirmed |-> FALSE, Height |-> 0, BlockSeq |-> 0]

NewUnconfirmedTransactionStatus ==
    [Confirmed |-> FALSE, Unconfirmed |-> TRUE, Height |-> 0, BlockSeq |-> 0]

\* panics when height = 0
NewConfirmedTransactionStatus(height, blockSeq) ==
    IF height = 0
      THEN [panic |-> TRUE, val |-> ZeroTransactionStatus]
      ELSE [panic |-> FALSE,
            val |-> [Confirmed |-> TRUE, Unconfirmed |-> FALSE,
                     Height |-> height, BlockSeq |-> blockSeq]]

(***************************************************************************)
(* Entity readers                                                          *)
(***************************************************************************)
NewReadableTransactionOutput(t, txid) ==
    LET coinStr == ToString(t.Coins)
    IN  IF coinStr.err # "nil" THEN [val |-> <<>>, err |-> coinStr.err]
        ELSE [val |-> <<[Hash    |-> Hex(UxID(t, txid)),
                         Address |-> AddressString(t.Address),
                         Coins   |-> coinStr.val,
                         Hours   |-> t.Hours]>>,
              err |-> "nil"]

\* a NewReadableTransactionInput that masks only the known overflow
NewReadableTransactionInputScoped(ux, calculateHoursTime) ==
    LET coinVal == ToString(ux.Body.Coins)
        hours   == CoinHours(ux, calculateHoursTime)
    IN  IF coinVal.err # "nil" THEN [val |-> <<>>, err |-> coinVal.err]
        ELSE IF hours.err \notin {"nil", "ErrAddEarnedCoinHoursAdditionOverflow"}
          THEN [val |-> <<>>, err |-> hours.err]
        ELSE [val |-> <<[Hash            |-> Hex(UxHash(ux)),
                         Address         |-> AddressString(ux.Body.Address),
                         Coins           |-> coinVal.val,
                         Hours           |-> ux.Body.Hours,
                         CalculatedHours |-> hours.val]>>,
              err |-> "nil"]

NewReadableTransactionInput(ux, calculateHoursTime) ==
    LET coinVal == ToString(ux.Body.Coins)
        hours   == CoinHours(ux, calculateHoursTime)
        calculatedHours == IF hours.err # "nil" THEN 0 ELSE hours.val
    IN  IF coinVal.err # "nil" THEN [val |-> <<>>, err |-> coinVal.err]
        ELSE [val |-> <<[Hash            |-> Hex(UxHash(ux)),
                         Address         |-> AddressString(ux.Body.Address),
                         Coins           |-> coinVal.val,
                         Hours           |-> ux.Body.Hours,
                         CalculatedHours |-> calculatedHours]>>,
              err |-> "nil"]

\* the zero value of ReadableOutput
ZeroReadableOutput ==
    [Hash |-> <<>>, Time |-> 0, BkSeq |-> 0, SourceTransaction |-> <<>>,
     Address |-> <<>>, Coins |-> <<>>, Hours |-> 0, CalculatedHours |-> 0]

\* a NewReadableOutput that forces the hours to 0 on every accrual error
NewReadableOutputMaskingAll(headTime, t) ==
    LET coinStr == ToString(t.Body.Coins)
        hours   == CoinHours(t, headTime)
    IN  IF coinStr.err # "nil" THEN [val |-> ZeroReadableOutput, err |-> coinStr.err]
        ELSE [val |-> [Hash              |-> Hex(UxHash(t)),
                       Time              |-> t.Head.Time,
                       BkSeq             |-> t.Head.BkSeq,
                       SourceTransaction |-> Hex(t.Body.SrcTransaction),
                       Address           |-> AddressString(t.Body.Address),
                       Coins             |-> coinStr.val,
                       Hours             |-> t.Body.Hours,
                       CalculatedHours   |-> IF hours.err # "nil" THEN 0 ELSE hours.val],
              err |-> "nil"]

NewReadableOutput(headTime, t) ==
    LET coinStr == ToString(t.Body.Coins)
        hours   == CoinHours(t, headTime)
        calculatedHours ==
            IF hours.err = "ErrAddEarnedCoinHoursAdditionOverflow" THEN 0 ELSE hours.val
    IN  IF coinStr.err # "nil" THEN [val |-> ZeroReadableOutput, err |-> coinStr.err]
        ELSE IF hours.err \notin {"nil", "ErrAddEarnedCoinHoursAdditionOverflow"}
          THEN [val |-> ZeroReadableOutput, err |-> hours.err]
        ELSE [val |-> [Hash              |-> Hex(UxHash(t)),
                       Time              |-> t.Head.Time,
                       BkSeq             |-> t.Head.BkSeq,
                       SourceTransaction |-> Hex(t.Body.SrcTransaction),
                       Address           |-> AddressString(t.Body.Address),
                       Coins             |-> coinStr.val,
                       Hours             |-> t.Body.Hours,
                       CalculatedHours   |-> calculatedHours],
              err |-> "nil"]

\* a comparison that forgets the tie-break
LessByTimeOnly(a, b) == a.Time > b.Time

\* the comparison NewReadableOutputs sorts by: newest first, hash breaks ties
Less(a, b) ==
    IF a.Time = b.Time
      THEN Compare(a.Hash, b.Hash, HexChars) < 0
      ELSE a.Time > b.Time

Permutations(n) == {p \in [1..n -> 1..n] : \A i, j \in 1..n : p[i] = p[j] => i = j}

\* the outcomes of sort.Slice: every arrangement of s in which no element is
\* Less than an element placed before it (the sort is not stable)
SortSlice(s) ==
    {r \in {[i \in 1..Len(s) |-> s[p[i]]] : p \in Permutations(Len(s))} :
        \A i, j \in 1..Len(s) : i < j => ~Less(r[j], r[i])}

\* the outcomes of NewReadableOutputs
NewReadableOutputs(headTime, uxs) ==
    LET outs == [i \in 1..Len(uxs) |-> NewReadableOutput(headTime, uxs[i])]
        bad  == {i \in 1..Len(uxs) : outs[i].err # "nil"}
    IN  IF bad # {}
          THEN {[val |-> <<>>, err |-> outs[CHOOSE i \in bad : \A j \in bad : i <= j].err]}
          ELSE {[val |-> r, err |-> "nil"] :
                   r \in SortSlice([i \in 1..Len(uxs) |-> outs[i].val])}

ZeroBalance == [Coins |-> 0, Hours |-> 0]

\* a Balance that adds the hours without the overflow check
RECURSIVE BalanceFromUnchecked(_, _, _)
BalanceFromUnchecked(ros, i, bal) ==
    IF i > Len(ros) THEN [val |-> bal, err |-> "nil"]
    ELSE LET coins == FromString(ros[i].Coins)
             c     == AddUint64(bal.Coins, coins.val)
         IN  IF coins.err # "nil" THEN [val |-> ZeroBalance, err |-> coins.err]
             ELSE IF c.err # "nil" THEN [val |-> ZeroBalance, err |-> c.err]
             ELSE BalanceFromUnchecked(ros, i + 1,
                    [Coins |-> c.val, Hours |-> U64(bal.Hours + ros[i].CalculatedHours)])

RECURSIVE BalanceFrom(_, _, _)
BalanceFrom(ros, i, bal) ==
    IF i > Len(ros) THEN [val |-> bal, err |-> "nil"]
    ELSE LET coins == FromString(ros[i].Coins)
             c     == AddUint64(bal.Coins, coins.val)
             h     == AddUint64(bal.Hours, ros[i].CalculatedHours)
         IN  IF coins.err # "nil" THEN [val |-> ZeroBalance, err |-> coins.err]
             ELSE IF c.err # "nil" THEN [val |-> ZeroBalance, err |-> c.err]
             ELSE IF h.err # "nil" THEN [val |-> ZeroBalance, err |-> h.err]
             ELSE BalanceFrom(ros, i + 1, [Coins |-> c.val, Hours |-> h.val])

Balance(ros) == BalanceFrom(ros, 1, ZeroBalance)

\* a ToUxArray that restores the declared hours from the calculated hours
RECURSIVE ToUxArrayFromCalculated(_, _, _)
ToUxArrayFromCalculated(ros, i, uxs) ==
    IF i > Len(ros) THEN [val |-> uxs, err |-> "nil"]
    ELSE LET o     == ros[i]
             coins == FromString(o.Coins)
             addr  == DecodeBase58Address(o.Address)
             srcTx == SHA256FromHex(o.SourceTransaction)
         IN  IF coins.err # "nil" THEN [val |-> <<>>, err |-> coins.err]
             ELSE IF addr.err # "nil" THEN [val |-> <<>>, err |-> addr.err]
             ELSE IF srcTx.err # "nil" THEN [val |-> <<>>, err |-> srcTx.err]
             ELSE ToUxArrayFromCalculated(ros, i + 1,
                    Append(uxs, [Head |-> [Time |-> o.Time, BkSeq |-> o.BkSeq],
                                 Body |-> [SrcTransaction |-> srcTx.val,
                                           Address        |-> addr.val,
                                           Coins          |-> coins.val,
                                           Hours          |-> o.CalculatedHours]]))

RECURSIVE ToUxArrayFrom(_, _, _)
ToUxArrayFrom(ros, i, uxs) ==
    IF i > Len(ros) THEN [val |-> uxs, err |-> "nil"]
    ELSE LET o     == ros[i]
             coins == FromString(o.Coins)
             addr  == DecodeBase58Address(o.Address)
             srcTx == SHA256FromHex(o.SourceTransaction)
         IN  IF coins.err # "nil" THEN [val |-> <<>>, err |-> coins.err]
             ELSE IF addr.err # "nil" THEN [val |-> <<>>, err |-> addr.err]
             ELSE IF srcTx.err # "nil" THEN [val |-> <<>>, err |-> srcTx.err]
             ELSE ToUxArrayFrom(ros, i + 1,
                    Append(uxs, [Head |-> [Time |-> o.Time, BkSeq |-> o.BkSeq],
                                 Body |-> [SrcTransaction |-> srcTx.val,
                                           Address        |-> addr.val,
                                           Coins          |-> coins.val,
                                           Hours          |-> o.Hours]]))

ToUxArray(ros) == ToUxArrayFrom(ros, 1, <<>>)

\* an output id rule that looks at the block sequence only
OutputTxidBySeqOnly(t) ==
    IF t.Status.BlockSeq # 0 THEN TxnHash(t.Txn) ELSE ZeroSHA256

\* the id the outputs of t are derived from: the empty hash for genesis
OutputTxid(t) ==
    IF t.Status.BlockSeq # 0 \/ ~t.Status.Confirmed THEN TxnHash(t.Txn) ELSE ZeroSHA256

NewReadableTransaction(t) ==
    LET txid == OutputTxid(t)
        outs == [i \in 1..Len(t.Txn.Out) |-> NewReadableTransactionOutput(t.Txn.Out[i], txid)]
        bad  == {i \in 1..Len(outs) : outs[i].err # "nil"}
    IN  IF t.Status.BlockSeq # 0 /\ t.Status.Confirmed /\ Len(t.Txn.In) = 0
          THEN [val |-> <<>>, err |-> "ErrEmptyInputs"]
        ELSE IF bad # {}
          THEN [val |-> <<>>, err |-> outs[CHOOSE i \in bad : \A j \in bad : i <= j].err]
        ELSE [val |-> <<[Length    |-> t.Txn.Length,
                         Type      |-> t.Txn.Type,
                         Hash      |-> TxIDHex(t.Txn),
                         InnerHash |-> Hex(t.Txn.InnerHash),
                         Timestamp |-> t.Time,
                         Sigs      |-> [i \in 1..Len(t.Txn.Sigs) |-> Hex(t.Txn.Sigs[i])],
                         In        |-> [i \in 1..Len(t.Txn.In) |-> Hex(t.Txn.In[i])],
                         Out       |-> [i \in 1..Len(outs) |-> outs[i].val[1]]]>>,
              err |-> "nil"]

\* the Transaction NewReadableUnconfirmedTxn hands to NewReadableTransaction
UnconfirmedTransaction(unconfirmed) ==
    [Txn |-> unconfirmed.Txn, Status |-> ZeroTransactionStatus, Time |-> 0]

NewReadableUnconfirmedTxn(unconfirmed) ==
    LET tx == NewReadableTransaction(UnconfirmedTransaction(unconfirmed))
    IN  IF tx.err # "nil" THEN [val |-> <<>>, err |-> tx.err]
        ELSE [val |-> <<[Txn       |-> tx.val[1],
                         Received  |-> unconfirmed.Received,
                         Checked   |-> unconfirmed.Checked,
                         Announced |-> unconfirmed.Announced,
                         IsValid   |-> unconfirmed.IsValid = 1]>>,
              err |-> "nil"]

\* the Transaction NewReadableBlockBody hands to NewReadableTransaction for
\* the i-th transaction of block b
BlockTransaction(b, i) ==
    [Txn    |-> b.Body.Transactions[i],
     Status |-> [Confirmed |-> TRUE, Unconfirmed |-> FALSE, Height |-> 0,
                 BlockSeq |-> b.Head.BkSeq],
     Time   |-> 0]

NewReadableBlockBody(b) ==
    LET txs == [i \in 1..Len(b.Body.Transactions) |->
                  NewReadableTransaction(BlockTransaction(b, i))]
        bad == {i \in 1..Len(txs) : txs[i].err # "nil"}
    IN  IF bad # {}
          THEN [val |-> <<>>, err |-> txs[CHOOSE i \in bad : \A j \in bad : i <= j].err]
          ELSE [val |-> <<[Transactions |-> [i \in 1..Len(txs) |-> txs[i].val[1]]]>>,
                err |-> "nil"]

\* the transactions NewReadableBlockBody converts before it returns: all of
\* them, or those up to the first that fails
BlockHanded(b) ==
    LET n   == Len(b.Body.Transactions)
        bad == {i \in 1..n : NewReadableTransaction(BlockTransaction(b, i)).err # "nil"}
        last == IF bad = {} THEN n ELSE CHOOSE i \in bad : \A j \in bad : i <= j
    IN  [i \in 1..last |-> BlockTransaction(b, i)]

(***************************************************************************)
(* Inputs the operations are applied to                                    *)
(***************************************************************************)
Word(S) == {v \in S : v >= 0 /\ v <= MaxUint64}

SrcHashes == {SumSHA256(<<1>>), SumSHA256(<<2>>)}
Addresses == {NullAddress, [Version |-> 0, Key |-> 7], [Version |-> 1, Key |-> 7]}
CoinVals  == Word({0, 1, Multiplier, 2 * Multiplier + 5, MaxInt64, MaxInt64 + 1, MaxUint64})
HourVals  == {0, 1, MaxUint64}
HeadTimes == {0, 2, 4, MaxUint64}

UxOut(time, bkSeq, src, addr, coins, hours) ==
    [Head |-> [Time |-> time, BkSeq |-> bkSeq],
     Body |-> [SrcTransaction |-> src, Address |-> addr, Coins |-> coins,
               Hours |-> hours]]

UxOuts ==
    {UxOut(time, bkSeq, src, addr, coins, hours) :
        time \in {0, 1, 2}, bkSeq \in {0, 5}, src \in SrcHashes,
        addr \in Addresses, coins \in CoinVals, hours \in HourVals}

\* the unspent outputs batches are made of: shared creation times, equal and
\* distinct bodies, overflowing hours
BatchUxOuts ==
    {UxOut(time, 5, SumSHA256(<<1>>), [Version |-> 0, Key |-> 7], coins, hours) :
        time \in {1, 2}, coins \in Word({1, 2 * Multiplier + 5}),
        hours \in {0, MaxUint64}}

SeqsUpTo(S, n) == UNION {[1..k -> S] : k \in 0..n}

\* readable outputs whose coin strings and calculated hours vary
CoinStrs ==
    {ToString(v).val : v \in Word({1, 2 * Multiplier + 5, MaxInt64})}
      \cup {<<"1", ".", "0">>, <<"x">>}

BalanceOutputs ==
    {[ZeroReadableOutput EXCEPT !.Coins = c, !.CalculatedHours = h] :
        c \in CoinStrs, h \in {0, MaxInt64 + 1, MaxUint64}}

\* readable outputs that did not come from NewReadableOutput
ForeignOutputs ==
    {[ZeroReadableOutput EXCEPT !.Coins = c, !.Address = a, !.SourceTransaction = s] :
        c \in {<<"1">>, <<"x">>},
        a \in {AddressString([Version |-> 0, Key |-> 7]),
               AddressString([Version |-> 1, Key |-> 7]), <<"0">>},
        s \in {Hex(SumSHA256(<<1>>)), <<"0", "0">>, <<"g">>}}

TxnOutputs ==
    [good  |-> [Address |-> [Version |-> 0, Key |-> 7], Coins |-> 2 * Multiplier + 5,
                Hours |-> 3],
     other |-> [Address |-> NullAddress, Coins |-> 1, Hours |-> 0],
     large |-> [Address |-> NullAddress, Coins |-> MaxInt64 + 1, Hours |-> 0]]

Txns ==
    {[Length |-> 10, Type |-> 0, InnerHash |-> SumSHA256(<<9>>),
      Sigs |-> sigs, In |-> in, Out |-> out] :
        sigs \in {<<>>, <<<<4, 5, 6>>>>},
        in   \in {<<>>, <<SumSHA256(<<1>>)>>, <<SumSHA256(<<1>>), SumSHA256(<<2>>)>>},
        out  \in {<<>>, <<TxnOutputs.good>>, <<TxnOutputs.good, TxnOutputs.other>>,
                  <<TxnOutputs.good, TxnOutputs.large>>}}

BlockTxns == {txn \in Txns : txn.Sigs # <<>> /\ Len(txn.Out) # 1}

Statuses ==
    [Confirmed : BOOLEAN, Unconfirmed : BOOLEAN, Height : {0, 1}, BlockSeq : {0, 1, 5}]

Transactions == [Txn : Txns, Status : Statuses, Time : {0, 7}]

Blocks ==
    {[Head |-> [BkSeq |-> seq], Body |-> [Transactions |-> txns]] :
        seq \in {0, 1, 5}, txns \in SeqsUpTo(BlockTxns, 2)}

UnconfirmedTxns ==
    {[Txn |-> txn, Received |-> 1, Checked |-> 2, Announced |-> 3, IsValid |-> v] :
        txn \in Txns, v \in {0, 1}}

(***************************************************************************)
(* The conversions are stateless: a behaviour is one call.  pc is the      *)
(* operation called, call its arguments and what it returned; statuses are *)
(* the transaction statuses the call built.  A panic aborts the program.   *)
(***************************************************************************)
NoCall == [in |-> <<>>, out |-> <<>>, statuses |-> <<>>]

IdleSet == [HeadOutputs |-> 0, OutgoingOutputs |-> 0, IncomingOutputs |-> 0]

Init ==
    /\ pc = "none"
    /\ call = NoCall
    /\ aborted = FALSE
    /\ heap = <<>>
    /\ owner = <<>>
    /\ os = IdleSet
    /\ proc = <<>>
    /\ writes = {}

\* no call has been made and the program has not aborted
Idle == pc = "none" /\ ~aborted

Returns(op, in, out, statuses) ==
    /\ pc' = op
    /\ call' = [in |-> in, out |-> out, statuses |-> statuses]
    /\ UNCHANGED <<aborted, heap, owner, os, proc, writes>>

CallNewUnconfirmedTransactionStatus ==
    /\ Idle
    /\ Returns("NewUnconfirmedTransactionStatus", <<>>,
               NewUnconfirmedTransactionStatus, <<NewUnconfirmedTransactionStatus>>)

CallNewConfirmedTransactionStatus ==
    /\ Idle
    /\ \E height \in {0, 1, 2}, blockSeq \in {0, 1, 5} :
           LET r == NewConfirmedTransactionStatus(height, blockSeq)
           IN  /\ pc' = "NewConfirmedTransactionStatus"
               /\ call' = [in |-> <<height, blockSeq>>, out |-> r,
                           statuses |-> IF r.panic THEN <<>> ELSE <<r.val>>]
               /\ aborted' = r.panic
               /\ UNCHANGED <<heap, owner, os, proc, writes>>

CallNewReadableTransaction ==
    /\ Idle
    /\ \E t \in Transactions :
           Returns("NewReadableTransaction", t, NewReadableTransaction(t), <<>>)

CallNewReadableUnconfirmedTxn ==
    /\ Idle
    /\ \E u \in UnconfirmedTxns :
           Returns("NewReadableUnconfirmedTxn", u, NewReadableUnconfirmedTxn(u),
                   <<UnconfirmedTransaction(u).Status>>)

CallNewReadableBlockBody ==
    /\ Idle
    /\ \E b \in Blocks :
           Returns("NewReadableBlockBody", b, NewReadableBlockBody(b),
                   [i \in 1..Len(BlockHanded(b)) |-> BlockHanded(b)[i].Status])

CallNewReadableTransactionInput ==
    /\ Idle
    /\ \E ux \in UxOuts, t \in HeadTimes :
           Returns("NewReadableTransactionInput", [ux |-> ux, time |-> t],
                   NewReadableTransactionInput(ux, t), <<>>)

CallNewReadableOutput ==
    /\ Idle
    /\ \E ux \in UxOuts, t \in HeadTimes :
           Returns("NewReadableOutput", [ux |-> ux, time |-> t],
                   NewReadableOutput(t, ux), <<>>)

CallNewReadableOutputs ==
    /\ Idle
    /\ \E uxs \in SeqsUpTo(BatchUxOuts, MaxOuts), t \in {2, MaxUint64} :
           \E r \in NewReadableOutputs(t, uxs) :
               Returns("NewReadableOutputs", [uxs |-> uxs, time |-> t], r, <<>>)

CallBalance ==
    /\ Idle
    /\ \E ros \in SeqsUpTo(BalanceOutputs, MaxOuts) :
           Returns("Balance", ros, Balance(ros), <<>>)

\* ToUxArray on the output the previous call of NewReadableOutput returned
CallToUxArrayBack ==
    /\ pc = "NewReadableOutput"
    /\ call.out.err = "nil"
    /\ ~aborted
    /\ pc' = "ToUxArray"
    /\ call' = [in |-> [ros |-> <<call.out.val>>, from |-> <<call.in>>],
                out |-> ToUxArray(<<call.out.val>>), statuses |-> <<>>]
    /\ UNCHANGED <<aborted, heap, owner, os, proc, writes>>

CallToUxArray ==
    /\ Idle
    /\ \E ros \in SeqsUpTo(ForeignOutputs, 2) :
           Returns("ToUxArray", [ros |-> ros, from |-> <<>>], ToUxArray(ros), <<>>)

Next ==
    \/ CallNewUnconfirmedTransactionStatus
    \/ CallNewConfirmedTransactionStatus
    \/ CallNewReadableTransaction
    \/ CallNewReadableUnconfirmedTxn
    \/ CallNewReadableBlockBody
    \/ CallNewReadableTransactionInput
    \/ CallNewReadableOutput
    \/ CallNewReadableOutputs
    \/ CallBalance
    \/ CallToUxArrayBack
    \/ CallToUxArray

Spec == Init /\ [][Next]_vars

(***************************************************************************)
(* Output set reconciler.  A slice is a header (arr, len, cap) over the    *)
(* backing array heap[arr]; the nil slice has arr = 0.  owner[arr] is who  *)
(* allocated the array: 0 for the set, or the call that made it.  proc[c]   *)
(* is the position of call c on the set os; writes logs every store a call *)
(* makes into a backing array.                                             *)
(***************************************************************************)
NilSlice == [arr |-> 0, len |-> 0, cap |-> 0]

Contents(h, sl) == IF sl.arr = 0 THEN <<>> ELSE SubSeq(h[sl.arr], 1, sl.len)

\* the capacity Go's append grows a slice of capacity old to, to hold needed
GrowCap(old, needed) == IF needed > 2 * old THEN needed ELSE 2 * old

RECURSIVE CapAfterAppends(_, _)
CapAfterAppends(cap, k) ==
    IF k <= cap THEN cap ELSE CapAfterAppends(GrowCap(cap, cap + 1), k)

\* append(sl, elems...) by call c on heap h: in place when the capacity
\* allows, into a new array otherwise
GoAppend(h, own, sl, elems, c) ==
    LET n == sl.len + Len(elems)
    IN  IF Len(elems) = 0
          THEN [res |-> sl, heap |-> h, owner |-> own, stores |-> {}]
        ELSE IF n <= sl.cap
          THEN [res   |-> [sl EXCEPT !.len = n],
                heap  |-> [h EXCEPT ![sl.arr] =
                             [i \in 1..sl.cap |->
                                IF i > sl.len /\ i <= n THEN elems[i - sl.len] ELSE @[i]]],
                owner |-> own,
                stores |-> {[by |-> c, arr |-> sl.arr, idx |-> i] : i \in (sl.len + 1)..n}]
        ELSE LET cap == GrowCap(sl.cap, n)
                 a   == Len(h) + 1
             IN  [res   |-> [arr |-> a, len |-> n, cap |-> cap],
                  heap  |-> Append(h, [i \in 1..cap |->
                                         IF i <= sl.len THEN h[sl.arr][i]
                                         ELSE IF i <= n THEN elems[i - sl.len]
                                         ELSE ZeroReadableOutput]),
                  owner |-> Append(own, c),
                  stores |-> {[by |-> c, arr |-> a, idx |-> i] : i \in 1..n}]

\* a SpendableOutputs that drops a head output only when the whole record,
\* not just its hash, occurs among the outgoing outputs
SpendableOutputsByRecord(h, own, set, c) ==
    LET head     == Contents(h, set.HeadOutputs)
        spending == {Contents(h, set.OutgoingOutputs)[i] :
                        i \in 1..set.OutgoingOutputs.len}
        IsKept(u) == u \notin spending
        kept     == SelectSeq(head, IsKept)
        cap      == CapAfterAppends(0, Len(kept))
        a        == Len(h) + 1
    IN  IF set.OutgoingOutputs.len = 0
          THEN [res |-> set.HeadOutputs, heap |-> h, owner |-> own, stores |-> {}]
        ELSE IF kept = <<>>
          THEN [res |-> NilSlice, heap |-> h, owner |-> own, stores |-> {}]
        ELSE [res   |-> [arr |-> a, len |-> Len(kept), cap |-> cap],
              heap  |-> Append(h, [i \in 1..cap |->
                                     IF i <= Len(kept) THEN kept[i] ELSE ZeroReadableOutput]),
              owner |-> Append(own, c),
              stores |-> {[by |-> c, arr |-> a, idx |-> i] : i \in 1..Len(kept)}]

\* ReadableOutputSet.SpendableOutputs called by c
SpendableOutputs(h, own, set, c) ==
    LET head     == Contents(h, set.HeadOutputs)
        spending == {Contents(h, set.OutgoingOutputs)[i].Hash :
                        i \in 1..set.OutgoingOutputs.len}
        IsKept(u) == u.Hash \notin spending
        kept     == SelectSeq(head, IsKept)
        cap      == CapAfterAppends(0, Len(kept))
        a        == Len(h) + 1
    IN  IF set.OutgoingOutputs.len = 0
          THEN [res |-> set.HeadOutputs, heap |-> h, owner |-> own, stores |-> {}]
        ELSE IF kept = <<>>
          THEN [res |-> NilSlice, heap |-> h, owner |-> own, stores |-> {}]
        ELSE [res   |-> [arr |-> a, len |-> Len(kept), cap |-> cap],
              heap  |-> Append(h, [i \in 1..cap |->
                                     IF i <= Len(kept) THEN kept[i] ELSE ZeroReadableOutput]),
              owner |-> Append(own, c),
              stores |-> {[by |-> c, arr |-> a, idx |-> i] : i \in 1..Len(kept)}]

\* an ExpectedOutputs that appends the outgoing outputs
ExpectedOutputsAppendOutgoing(h, own, set, sp, c) ==
    GoAppend(h, own, sp, Contents(h, set.OutgoingOutputs), c)

\* the append of ReadableOutputSet.ExpectedOutputs, on the slice sp that
\* SpendableOutputs returned to c
ExpectedOutputsAppend(h, own, set, sp, c) ==
    GoAppend(h, own, sp, Contents(h, set.IncomingOutputs), c)

SetOutput(hash, time) == [ZeroReadableOutput EXCEPT !.Hash = hash, !.Time = time]

\* what the collections of a set are drawn from: an outgoing output may
\* share only its hash with a head output, an incoming output may repeat one
HeadUniverse     == {SetOutput(<<"a">>, 100), SetOutput(<<"b">>, 100)}
OutgoingUniverse == {SetOutput(<<"a">>, 50), SetOutput(<<"b">>, 100)}
IncomingUniverse == {SetOutput(<<"a">>, 100), SetOutput(<<"d">>, 200)}

Calls == 1..MaxCalls

IdleProc == [pc |-> "idle", op |-> "none", sp |-> NilSlice, res |-> NilSlice]

InitSet ==
    /\ pc = "none"
    /\ call = NoCall
    /\ aborted = FALSE
    /\ \E hs \in SeqsUpTo(HeadUniverse, MaxHead), spare \in 0..MaxSpare,
          outs \in SeqsUpTo(OutgoingUniverse, 1),
          ins \in SeqsUpTo(IncomingUniverse, MaxHead) :
          /\ heap = <<hs \o Repeat(ZeroReadableOutput, spare), outs, ins>>
          /\ os = [HeadOutputs     |-> [arr |-> 1, len |-> Len(hs), cap |-> Len(hs) + spare],
                   OutgoingOutputs |-> [arr |-> 2, len |-> Len(outs), cap |-> Len(outs)],
                   IncomingOutputs |-> [arr |-> 3, len |-> Len(ins), cap |-> Len(ins)]]
    /\ owner = <<0, 0, 0>>
    /\ proc = [c \in Calls |-> IdleProc]
    /\ writes = {}

\* call c runs SpendableOutputs, on its own or as the first half of ExpectedOutputs
CallSpendableOutputs(c) ==
    /\ proc[c].pc = "idle"
    /\ \E op \in {"SpendableOutputs", "ExpectedOutputs"} :
        LET r == SpendableOutputs(heap, owner, os, c)
        IN  /\ heap' = r.heap
            /\ owner' = r.owner
            /\ writes' = writes \cup r.stores
            /\ proc' = [proc EXCEPT ![c] =
                          [pc  |-> IF op = "ExpectedOutputs" THEN "append" ELSE "done",
                           op  |-> op, sp |-> r.res,
                           res |-> IF op = "ExpectedOutputs" THEN NilSlice ELSE r.res]]
    /\ UNCHANGED <<pc, call, aborted, os>>

\* call c of ExpectedOutputs appends the incoming outputs and returns
ReturnExpectedOutputs(c) ==
    /\ proc[c].pc = "append"
    /\ LET r == ExpectedOutputsAppend(heap, owner, os, proc[c].sp, c)
       IN  /\ heap' = r.heap
           /\ owner' = r.owner
           /\ writes' = writes \cup r.stores
           /\ proc' = [proc EXCEPT ![c].pc = "done", ![c].res = r.res]
    /\ UNCHANGED <<pc, call, aborted, os>>

NextSet == \E c \in Calls : CallSpendableOutputs(c) \/ ReturnExpectedOutputs(c)

SpecSet == InitSet /\ [][NextSet]_vars

(***************************************************************************)
(* Properties                                                              *)
(***************************************************************************)
IsGenesisStatus(st) == st.Confirmed /\ st.BlockSeq = 0

Converted(op) == pc = op /\ call.out.err = "nil"

\* C1 (as stated): the txid field of the readable transaction is the
\* all-zero hash when the status is confirmed with block sequence 0, and
\* the content hash of the transaction otherwise.
C1_TxidZeroForGenesis ==
    Converted("NewReadableTransaction") =>
        call.out.val[1].Hash =
            IF IsGenesisStatus(call.in.Status) THEN Hex(ZeroSHA256)
            ELSE Hex(TxnHash(call.in.Txn))

\* C1 (amended): the txid field is the content hash of the transaction
\* whatever its status is; the all-zero hash is only the transaction id from
\* which the identifiers of the outputs are derived, and it is used exactly
\* when the status is confirmed with block sequence 0.
C1_TxidIsContentHash ==
    Converted("NewReadableTransaction") =>
        LET t  == call.in
            tx == call.out.val[1]
            id == IF IsGenesisStatus(t.Status) THEN ZeroSHA256 ELSE TxnHash(t.Txn)
        IN  /\ tx.Hash = Hex(TxnHash(t.Txn))
            /\ Len(tx.Out) = Len(t.Txn.Out)
            /\ \A i \in 1..Len(tx.Out) : tx.Out[i].Hash = Hex(UxID(t.Txn.Out[i], id))

C1_Witness ==
    /\ Converted("NewReadableTransaction")
    /\ IsGenesisStatus(call.in.Status)
    /\ Len(call.out.val[1].Out) > 0
    /\ call.out.val[1].Hash # Hex(ZeroSHA256)
    /\ call.out.val[1].Out[1].Hash
         # Hex(UxID(call.in.Txn.Out[1], TxnHash(call.in.Txn)))

ProcsPast(pcs) == {c \in DOMAIN proc : proc[c].pc \in pcs}

HashesOf(ros) == {ros[i].Hash : i \in 1..Len(ros)}

\* the elements of head whose hash is not a hash of outgoing, in head order
HeadMinusOutgoing(head, outgoing) ==
    LET NotOutgoing(u) == \A i \in 1..Len(outgoing) : outgoing[i].Hash # u.Hash
    IN  SelectSeq(head, NotOutgoing)

C3_ExpectedIsSpendableThenIncoming ==
    \A c \in ProcsPast({"done"}) :
        proc[c].op = "ExpectedOutputs" =>
            LET spendable == HeadMinusOutgoing(Contents(heap, os.HeadOutputs),
                                               Contents(heap, os.OutgoingOutputs))
                incoming  == Contents(heap, os.IncomingOutputs)
                expected  == Contents(heap, proc[c].res)
            IN  /\ Len(expected) = Len(spendable) + Len(incoming)
                /\ SubSeq(expected, 1, Len(spendable)) = spendable
                /\ SubSeq(expected, Len(spendable) + 1, Len(expected)) = incoming
                /\ spendable = Contents(heap, proc[c].sp)

C3_Witness ==
    \E c \in ProcsPast({"done"}) :
        /\ proc[c].op = "ExpectedOutputs"
        /\ os.OutgoingOutputs.len > 0
        /\ proc[c].sp.len > 0
        /\ os.IncomingOutputs.len > 0
        /\ HashesOf(Contents(heap, os.IncomingOutputs))
             \cap HashesOf(Contents(heap, proc[c].sp)) # {}
        /\ proc[c].res.len = proc[c].sp.len + os.IncomingOutputs.len

AllDecode(ros) == \A i \in 1..Len(ros) : FromString(ros[i].Coins).err = "nil"

RECURSIVE SumCoins(_)
SumCoins(ros) ==
    IF ros = <<>> THEN 0 ELSE FromString(ros[1].Coins).val + SumCoins(Tail(ros))

RECURSIVE SumHours(_)
SumHours(ros) ==
    IF ros = <<>> THEN 0 ELSE ros[1].CalculatedHours + SumHours(Tail(ros))

\* C4: when every coin string decodes, Balance returns the two sums without
\* error exactly when both fit the unsigned word, and an error with the zero
\* balance otherwise; it never returns a wrapped total.
C4_BalanceFailsOnOverflow ==
    (pc = "Balance" /\ AllDecode(call.in)) =>
        IF SumCoins(call.in) <= MaxUint64 /\ SumHours(call.in) <= MaxUint64
          THEN call.out = [val |-> [Coins |-> SumCoins(call.in),
                                    Hours |-> SumHours(call.in)],
                           err |-> "nil"]
          ELSE call.out.err # "nil" /\ call.out.val = ZeroBalance

C4_Witness ==
    /\ pc = "Balance"
    /\ AllDecode(call.in)
    /\ SumCoins(call.in) > 0
    /\ SumCoins(call.in) <= MaxUint64
    /\ SumHours(call.in) > MaxUint64
    /\ U64(SumHours(call.in)) > 0
    /\ call.out.err = "ErrUint64AddOverflow"

ConvertedBatch(time, uxs) == [i \in 1..Len(uxs) |-> NewReadableOutput(time, uxs[i]).val]

DistinctHashes(uxs) ==
    \A i, j \in 1..Len(uxs) : UxHash(uxs[i]) = UxHash(uxs[j]) => i = j

Count(x, s) == Cardinality({i \in 1..Len(s) : s[i] = x})

IsPermutationOf(r, s) ==
    /\ Len(r) = Len(s)
    /\ \A i \in 1..Len(s) : Count(s[i], r) = Count(s[i], s)

\* C5: a successful NewReadableOutputs on outputs with pairwise distinct
\* hashes returns a permutation of the converted outputs in which each
\* element is newer than the next, or as old with a smaller hash; the result
\* does not depend on the input order and sorting it again leaves it as it is.
C5_SortedNewestFirstHashAscending ==
    (Converted("NewReadableOutputs") /\ DistinctHashes(call.in.uxs)) =>
        LET r == call.out.val
            n == Len(r)
        IN  /\ IsPermutationOf(r, ConvertedBatch(call.in.time, call.in.uxs))
            /\ \A i \in 1..(n - 1) :
                  \/ r[i].Time > r[i + 1].Time
                  \/ /\ r[i].Time = r[i + 1].Time
                     /\ Compare(r[i].Hash, r[i + 1].Hash, HexChars) < 0
            /\ \A p \in Permutations(n) :
                  NewReadableOutputs(call.in.time, [i \in 1..n |-> call.in.uxs[p[i]]])
                    = {call.out}
            /\ SortSlice(r) = {r}

C5_Witness ==
    /\ Converted("NewReadableOutputs")
    /\ DistinctHashes(call.in.uxs)
    /\ Len(call.out.val) = 3
    /\ call.out.val # ConvertedBatch(call.in.time, call.in.uxs)
    /\ call.out.val[1].Time > call.out.val[2].Time
    /\ call.out.val[2].Time = call.out.val[3].Time
    /\ Compare(ConvertedBatch(call.in.time, call.in.uxs)[1].Hash,
               ConvertedBatch(call.in.time, call.in.uxs)[2].Hash, HexChars) > 0
    /\ ConvertedBatch(call.in.time, call.in.uxs)[1].Time
         = ConvertedBatch(call.in.time, call.in.uxs)[2].Time

\* the readable output of ux with the given calculated hours
ReadableOf(ux, calculatedHours) ==
    [Hash              |-> Hex(SumSHA256(UxBodyBytes(ux.Body))),
     Time              |-> ux.Head.Time,
     BkSeq             |-> ux.Head.BkSeq,
     SourceTransaction |-> Hex(ux.Body.SrcTransaction),
     Address           |-> Base58Encode(AddressBytes(ux.Body.Address)),
     Coins             |-> ToString(ux.Body.Coins).val,
     Hours             |-> ux.Body.Hours,
     CalculatedHours   |-> calculatedHours]

KnownOverflow == "ErrAddEarnedCoinHoursAdditionOverflow"

\* C6: NewReadableOutput turns the known coin-hours overflow into calculated
\* hours 0 with no error and every other field as usual; any other accrual
\* error, and a failing amount encoding, is returned with no readable output.
C6_OutputMasksOnlyKnownOverflow ==
    pc = "NewReadableOutput" =>
        LET ux    == call.in.ux
            coins == ToString(ux.Body.Coins)
            hours == CoinHours(ux, call.in.time)
        IN  /\ (coins.err = "nil" /\ hours.err = KnownOverflow) =>
                  call.out = [val |-> ReadableOf(ux, 0), err |-> "nil"]
            /\ (coins.err = "nil" /\ hours.err \notin {"nil", KnownOverflow}) =>
                  call.out = [val |-> ZeroReadableOutput, err |-> hours.err]
            /\ coins.err # "nil" =>
                  call.out = [val |-> ZeroReadableOutput, err |-> coins.err]

C6_Witness ==
    /\ Converted("NewReadableOutput")
    /\ CoinHours(call.in.ux, call.in.time).err = KnownOverflow
    /\ call.in.ux.Body.Hours > 0
    /\ call.out.val.CalculatedHours = 0
    /\ call.out.val.Hours = call.in.ux.Body.Hours

\* an unspent output inside the domain of the address codec
ValidAddress(ux) == ux.Body.Address.Version = 0

\* an unspent output inside the domain of the amount and address codecs
ValidUxOut(ux) == ux.Body.Coins <= MaxInt64 /\ ValidAddress(ux)

RoundTrips ==
    (pc = "ToUxArray" /\ call.in.from # <<>> /\ ValidAddress(call.in.from[1].ux)) =>
        /\ call.out.err = "nil"
        /\ Len(call.out.val) = 1
        /\ call.out.val[1].Head = call.in.from[1].ux.Head
        /\ call.out.val[1].Body = call.in.from[1].ux.Body

\* C7 (as stated): for every valid unspent output and every reference time
\* NewReadableOutput succeeds, and ToUxArray of its result succeeds and
\* restores time, block sequence, source transaction, address, coins and
\* declared hours.
C7_RoundTripAlwaysSucceeds ==
    /\ (pc = "NewReadableOutput" /\ ValidUxOut(call.in.ux)) => call.out.err = "nil"
    /\ RoundTrips

\* C7 (amended): for every valid unspent output and every reference time at
\* which NewReadableOutput succeeds (the accrual succeeds or fails with the
\* known overflow), ToUxArray of the one-element collection succeeds and
\* restores time, block sequence, source transaction, address, coins and
\* declared hours, whatever the calculated hours are; NewReadableOutput
\* fails exactly when the accrual fails with another error.
C7_RoundTripWhenConverted ==
    /\ (pc = "NewReadableOutput" /\ ValidUxOut(call.in.ux)) =>
          (call.out.err = "nil"
             <=> CoinHours(call.in.ux, call.in.time).err \in {"nil", KnownOverflow})
    /\ RoundTrips

C7_Witness ==
    /\ pc = "ToUxArray"
    /\ call.in.from # <<>>
    /\ ValidAddress(call.in.from[1].ux)
    /\ call.in.ros[1].CalculatedHours # call.in.ros[1].Hours
    /\ call.in.from[1].ux.Body.Coins > Multiplier
    /\ call.in.from[1].ux.Body.Coins % Multiplier # 0
    /\ call.out.err = "nil"

StatusBuilders ==
    {"NewUnconfirmedTransactionStatus", "NewConfirmedTransactionStatus",
     "NewReadableUnconfirmedTxn", "NewReadableBlockBody"}

\* C8: every transaction status the core builds is tagged as exactly one of
\* unconfirmed or confirmed, and has height >= 1 when it is confirmed.
C8_StatusesWellFormed ==
    pc \in StatusBuilders =>
        \A i \in 1..Len(call.statuses) :
            /\ call.statuses[i].Confirmed # call.statuses[i].Unconfirmed
            /\ call.statuses[i].Confirmed => call.statuses[i].Height >= 1

\* C9 (as stated): NewReadableTransactionInput masks only the known
\* overflow; another accrual error, and a failing amount encoding, is
\* returned with no readable input.
C9_InputMasksOnlyKnownOverflow ==
    pc = "NewReadableTransactionInput" =>
        LET coins == ToString(call.in.ux.Body.Coins)
            hours == CoinHours(call.in.ux, call.in.time)
        IN  /\ (coins.err # "nil" \/ hours.err \notin {"nil", KnownOverflow}) =>
                  call.out.err # "nil" /\ call.out.val = <<>>
            /\ (coins.err = "nil" /\ hours.err = KnownOverflow) =>
                  call.out.err = "nil" /\ call.out.val[1].CalculatedHours = 0

\* C9 (amended): NewReadableTransactionInput masks every failure of the
\* coin-hours accrual, the known overflow and any other error alike: it
\* returns no error and calculated hours 0; only a failing amount encoding
\* returns an error and no readable input.
C9_InputMasksEveryAccrualError ==
    pc = "NewReadableTransactionInput" =>
        LET ux    == call.in.ux
            coins == ToString(ux.Body.Coins)
            hours == CoinHours(ux, call.in.time)
            want  == [Hash            |-> Hex(UxHash(ux)),
                      Address         |-> AddressString(ux.Body.Address),
                      Coins           |-> coins.val,
                      Hours           |-> ux.Body.Hours,
                      CalculatedHours |-> IF hours.err = "nil" THEN hours.val ELSE 0]
        IN  IF coins.err # "nil"
              THEN call.out = [val |-> <<>>, err |-> coins.err]
              ELSE call.out = [val |-> <<want>>, err |-> "nil"]

C9_Witness ==
    /\ Converted("NewReadableTransactionInput")
    /\ CoinHours(call.in.ux, call.in.time).err \notin {"nil", KnownOverflow}
    /\ call.in.ux.Body.Hours > 0
    /\ call.out.val[1].CalculatedHours = 0

\* C10: no call of ExpectedOutputs stores into an array of the set or of
\* another call, and the elements of every result of ExpectedOutputs lie in
\* an array the call allocated itself, so that they are locations of neither
\* the set nor the result of another call.
C10_ExpectedOutputsFresh ==
    /\ \A w \in writes : owner[w.arr] = w.by
    /\ \A c \in ProcsPast({"done"}) :
          (proc[c].op = "ExpectedOutputs" /\ proc[c].res.len > 0) =>
              owner[proc[c].res.arr] = c
====
